---- MODULE Spec2Model ----
(***************************************************************************)
(* Model of resources/scripts/ossify.py, the Stalwart SEL code remover.    *)
(*                                                                         *)
(* Text is a sequence of tokens.  A token is an atomic piece of text: the  *)
(* newline, a blank, one of the three SPDX marker literals, a comment      *)
(* token, or an opaque marker-free chunk of code.  Substring tests of the  *)
(* source ('marker' in line) are membership tests on the token sequence,   *)
(* str.split / str.join / str.strip are computed on the token sequence.    *)
(***************************************************************************)
EXTENDS Integers, Sequences, FiniteSets, TLC

(* ----------------------------- tokens ---------------------------------- *)
NL == "\n"
SP == " "
SnippetBegin == "// SPDX-SnippetBegin"
SnippetEnd == "// SPDX-SnippetEnd"
LicenseSEL == "SPDX-License-Identifier: LicenseRef-SEL"
BlockOpen == "/*"
BlockClose == "*/"
LineComment == "//"

(* ----------------------------- bounds ---------------------------------- *)
MaxLines == 4
MaxGateLines == 3
MaxFiles == 2

(* --------------------------- str helpers ------------------------------- *)
Text == Seq(STRING)
TextLines == Seq(Text)

\* 'marker' in text
Contains(text, marker) == \E t \in {text} : \E k \in 1..Len(t) : t[k] = marker

\* text.split('\n'), from position k with the line under way cur: always at
\* least one line
SplitFrom[text \in Text, k \in Nat, cur \in Text] ==
    IF k > Len(text) THEN <<cur>>
    ELSE IF text[k] = NL THEN <<cur>> \o SplitFrom[text, k + 1, <<>>]
    ELSE SplitFrom[text, k + 1, Append(cur, text[k])]

Split(text) == SplitFrom[text, 1, <<>>]

\* '\n'.join(ls)
Join[ls \in TextLines] ==
    IF Len(ls) = 0 THEN <<>>
    ELSE IF Len(ls) = 1 THEN ls[1]
    ELSE ls[1] \o <<NL>> \o Join[Tail(ls)]

IsSpace(tok) == tok \in {NL, SP}

\* text.strip()
LStrip[text \in Text] ==
    IF Len(text) > 0 /\ IsSpace(text[1]) THEN LStrip[Tail(text)] ELSE text

RStrip[text \in Text] ==
    IF Len(text) > 0 /\ IsSpace(text[Len(text)])
    THEN RStrip[SubSeq(text, 1, Len(text) - 1)] ELSE text

Strip(text) == RStrip[LStrip[text]]

\* text.startswith('//'): the two snippet markers begin with '//' themselves
StartsWithLineComment(text) ==
    \E t \in {text} : Len(t) > 0 /\ t[1] \in {LineComment, SnippetBegin, SnippetEnd}

\* text.startswith('/*')
StartsWithBlockOpen(text) == \E t \in {text} : Len(t) > 0 /\ t[1] = BlockOpen

\* all sequences over S of length lo..hi
SeqsOf(S, lo, hi) == UNION {[1..n -> S] : n \in lo..hi}

(* --------------------- remove_proprietary_snippets --------------------- *)
\* lines 109-113, the look-ahead loop: the index at which it stops
LookAhead[ls \in TextLines, jj \in Nat] ==
    IF jj < Len(ls)
    THEN IF Contains(ls[jj + 1], SnippetEnd) THEN jj ELSE LookAhead[ls, jj + 1]
    ELSE jj

\* snippet_lines as collected by the look-ahead loop started at ii
Collected(ls, ii) ==
    LET jj == LookAhead[ls, ii]
        last == IF jj < Len(ls) THEN jj + 1 ELSE Len(ls)
    IN SubSeq(ls, ii + 1, last)

\* lines 98-130, the outer loop from index ii with the results so far
ScanFrom[ls \in TextLines, ii \in Nat, res \in TextLines, removed \in Nat] ==
    IF ii < Len(ls)
    THEN IF Contains(ls[ii + 1], SnippetBegin)
         THEN IF Contains(Join[Collected(ls, ii)], LicenseSEL)
              THEN ScanFrom[ls, LookAhead[ls, ii] + 1, res, removed + 1]
              ELSE ScanFrom[ls, ii + 1, Append(res, ls[ii + 1]), removed]
         ELSE ScanFrom[ls, ii + 1, Append(res, ls[ii + 1]), removed]
    ELSE <<Join[res], removed>>

remove_proprietary_snippets(text) == ScanFrom[Split(text), 0, <<>>, 0]

(* ---------------------- find_first_comment_block ----------------------- *)
NoBlock == [found |-> FALSE, text |-> <<>>]

\* lines 38-42: collect up to and including the first line holding '*/'
BlockCommentLines[ls \in TextLines, k \in Nat, comment_lines \in TextLines] ==
    IF k > Len(ls) THEN comment_lines
    ELSE IF Contains(ls[k], BlockClose) THEN Append(comment_lines, ls[k])
    ELSE BlockCommentLines[ls, k + 1, Append(comment_lines, ls[k])]

\* lines 50-57: collect while the stripped line starts with '//' or is empty
LineCommentLines[ls \in TextLines, k \in Nat, comment_lines \in TextLines] ==
    IF k > Len(ls) THEN comment_lines
    ELSE IF StartsWithLineComment(Strip(ls[k]))
         THEN LineCommentLines[ls, k + 1, Append(comment_lines, ls[k])]
    ELSE IF Strip(ls[k]) = <<>>
         THEN LineCommentLines[ls, k + 1, Append(comment_lines, ls[k])]
    ELSE comment_lines

\* lines 26-61 on the split lines ls of the stripped content
FirstCommentOf[ls \in TextLines] ==
    IF Len(ls) = 0 THEN NoBlock
    ELSE IF StartsWithBlockOpen(Strip(ls[1]))
         THEN [found |-> TRUE, text |-> Join[BlockCommentLines[ls, 1, <<>>]]]
    ELSE IF StartsWithLineComment(Strip(ls[1]))
         THEN [found |-> TRUE, text |-> Join[LineCommentLines[ls, 1, <<>>]]]
    ELSE NoBlock

\* variant: the content is not stripped before it is split
find_first_comment_block_NoStrip(text) == FirstCommentOf[Split(text)]

find_first_comment_block(text) == FirstCommentOf[Split(Strip(text))]

(* ------------------------------ state ---------------------------------- *)
VARIABLES
    \* remove_proprietary_snippets, statement by statement
    content, lines, result_lines, i, j, snippet_start, snippet_lines,
    snippets_removed, modified_content, scan_pc,
    \* the application under way (1: on the input, 2: on its own output)
    \* and the value returned by the first application
    pass, first_result,
    \* the file tree: path -> content of the files that exist
    fs,
    \* the operations that fail on each path (unreadable, undecodable,
    \* read-only): path -> subset of FaultOps
    faults,
    \* should_remove_file called on its own: position, returned value and
    \* the block that find_first_comment_block returned to it
    gate_pc, gate_ret, gate_comment,
    \* main: the arguments, the position, the locals
    dir_valid, dry_run, pc, rust_files, idx,
    files_removed, files_with_snippets_removed, total_snippets_removed, errors,
    \* process_rust_file: the result dict and the content about to be written
    result, to_write,
    \* what the run printed last: the summary, and the exit status
    summary, exit_code,
    \* history: the tree before the run, the calls and mutations of the
    \* current run in order, the dicts process_rust_file returned, the number
    \* of the run (1, 2 for the real run after a preview, 3 for a real run
    \* after a real run) and what the run before reported
    fs0, log, results, run, predicted

scanVars == <<content, lines, result_lines, i, j, snippet_start, snippet_lines,
              snippets_removed, modified_content, scan_pc, pass, first_result>>

envVars == <<fs, faults>>

gateVars == <<gate_pc, gate_ret, gate_comment>>

mainVars == <<dir_valid, dry_run, pc, rust_files, idx, files_removed,
              files_with_snippets_removed, total_snippets_removed, errors,
              result, to_write, summary, exit_code, fs0, log, results, run, predicted>>

counterVars == <<files_removed, files_with_snippets_removed,
                 total_snippets_removed, errors>>

histVars == <<fs0, run, predicted>>

vars == <<scanVars, envVars, gateVars, mainVars>>

(* -------------------------- should_remove_file ------------------------- *)
\* open(file_path, 'r') followed by f.read() at line 70 (op "read_gate") or
\* at line 154 (op "read"), os.remove at line 150, open(file_path, 'w') and
\* f.write at line 164
FaultOps == {"read_gate", "read", "remove", "write"}

Raises(file_path, op) == file_path \notin DOMAIN fs \/ op \in faults[file_path]

\* variant: the marker is looked for in the whole content
should_remove_file_WholeContent(file_path) ==
    IF Raises(file_path, "read_gate") THEN FALSE
    ELSE Contains(fs[file_path], LicenseSEL)

should_remove_file(file_path) ==
    IF Raises(file_path, "read_gate") THEN FALSE
    ELSE LET first_comment == find_first_comment_block(fs[file_path])
         IN IF /\ first_comment.found
               /\ first_comment.text # <<>>
               /\ Contains(first_comment.text, LicenseSEL)
            THEN TRUE
            ELSE FALSE

(* ------------- remove_proprietary_snippets as a step machine ----------- *)
\* line shapes the scanned contents are built from
CodeLine == <<"fn f() {}">>
ScanLineShapes ==
    { <<>>, CodeLine, <<SnippetBegin>>, <<SnippetEnd>>, <<SP, LineComment, SP, LicenseSEL>>,
      <<SnippetBegin, SP, LicenseSEL>>, <<SnippetBegin, SP, SnippetEnd>> }

ScanContents == {Join[ls] : ls \in SeqsOf(ScanLineShapes, 1, MaxLines)}

ScanIdle ==
    /\ content = <<>> /\ lines = <<>> /\ result_lines = <<>>
    /\ i = 0 /\ j = 0 /\ snippet_start = -1 /\ snippet_lines = <<>>
    /\ snippets_removed = 0 /\ modified_content = <<>>
    /\ scan_pc = "idle" /\ pass = 0 /\ first_result = <<>>

EnvIdle == fs = <<>> /\ faults = <<>>

GateIdle == gate_pc = "idle" /\ gate_ret = FALSE /\ gate_comment = NoBlock

MainIdle ==
    /\ dir_valid = TRUE /\ dry_run = FALSE /\ pc = "idle" /\ rust_files = <<>>
    /\ idx = 0 /\ files_removed = 0 /\ files_with_snippets_removed = 0
    /\ total_snippets_removed = 0 /\ errors = <<>>
    /\ result = <<>> /\ to_write = <<>> /\ summary = <<>> /\ exit_code = 0
    /\ fs0 = <<>> /\ log = <<>> /\ results = <<>> /\ run = 0 /\ predicted = <<>>

ScanInit ==
    /\ EnvIdle /\ GateIdle /\ MainIdle
    /\ content \in ScanContents
    /\ lines = <<>> /\ result_lines = <<>>
    /\ i = 0 /\ j = 0 /\ snippet_start = -1 /\ snippet_lines = <<>>
    /\ snippets_removed = 0 /\ modified_content = <<>>
    /\ scan_pc = "entry" /\ pass = 1 /\ first_result = <<>>

\* lines 88-96
ScanEntry ==
    /\ scan_pc = "entry"
    /\ snippets_removed' = 0
    /\ lines' = Split(content)
    /\ result_lines' = <<>>
    /\ i' = 0
    /\ scan_pc' = "outer"
    /\ UNCHANGED <<content, j, snippet_start, snippet_lines, modified_content,
                   pass, first_result, envVars, gateVars, mainVars>>

\* lines 98-99, 126-128: a line that starts no snippet
OuterPlain ==
    /\ scan_pc = "outer"
    /\ i < Len(lines)
    /\ ~Contains(lines[i + 1], SnippetBegin)
    /\ result_lines' = Append(result_lines, lines[i + 1])
    /\ i' = i + 1
    /\ UNCHANGED <<content, lines, j, snippet_start, snippet_lines,
                   snippets_removed, modified_content, scan_pc, pass, first_result, envVars, gateVars, mainVars>>

\* variant: the look-ahead starts at the line after the begin line
OuterBegin_LookAheadAfterBegin ==
    /\ scan_pc = "outer"
    /\ i < Len(lines)
    /\ Contains(lines[i + 1], SnippetBegin)
    /\ snippet_start' = i
    /\ snippet_lines' = <<lines[i + 1]>>
    /\ j' = IF i + 1 < Len(lines) THEN i + 1 ELSE i
    /\ scan_pc' = IF i + 1 < Len(lines) THEN "inner" ELSE "check"
    /\ UNCHANGED <<content, lines, result_lines, i, snippets_removed,
                   modified_content, pass, first_result, envVars, gateVars, mainVars>>

\* lines 98-106: a line that starts a snippet
OuterBegin ==
    /\ scan_pc = "outer"
    /\ i < Len(lines)
    /\ Contains(lines[i + 1], SnippetBegin)
    /\ snippet_start' = i
    /\ snippet_lines' = <<>>
    /\ j' = i
    /\ scan_pc' = "inner"
    /\ UNCHANGED <<content, lines, result_lines, i, snippets_removed,
                   modified_content, pass, first_result, envVars, gateVars, mainVars>>

\* lines 109-113: collect a line that does not end the snippet
InnerAdvance ==
    /\ scan_pc = "inner"
    /\ j < Len(lines)
    /\ ~Contains(lines[j + 1], SnippetEnd)
    /\ snippet_lines' = Append(snippet_lines, lines[j + 1])
    /\ j' = j + 1
    /\ UNCHANGED <<content, lines, result_lines, i, snippet_start,
                   snippets_removed, modified_content, scan_pc, pass, first_result, envVars, gateVars, mainVars>>

\* variant: the SnippetEnd line is left out of the span
InnerBreak_EndExcluded ==
    /\ scan_pc = "inner"
    /\ j < Len(lines)
    /\ Contains(lines[j + 1], SnippetEnd)
    /\ snippet_lines' = snippet_lines
    /\ j' = IF j > i THEN j - 1 ELSE j
    /\ scan_pc' = "check"
    /\ UNCHANGED <<content, lines, result_lines, i, snippet_start,
                   snippets_removed, modified_content, pass, first_result, envVars, gateVars, mainVars>>

\* lines 109-112: collect the SnippetEnd line and break
InnerBreak ==
    /\ scan_pc = "inner"
    /\ j < Len(lines)
    /\ Contains(lines[j + 1], SnippetEnd)
    /\ snippet_lines' = Append(snippet_lines, lines[j + 1])
    /\ scan_pc' = "check"
    /\ UNCHANGED <<content, lines, result_lines, i, j, snippet_start,
                   snippets_removed, modified_content, pass, first_result, envVars, gateVars, mainVars>>

\* line 109: end of input reached without SnippetEnd
InnerExhausted ==
    /\ scan_pc = "inner"
    /\ ~(j < Len(lines))
    /\ scan_pc' = "check"
    /\ UNCHANGED <<content, lines, result_lines, i, j, snippet_start, snippet_lines,
                   snippets_removed, modified_content, pass, first_result, envVars, gateVars, mainVars>>

\* variant: the counter counts dropped lines, not dropped spans
SnippetDrop_CountsLines ==
    /\ scan_pc = "check"
    /\ Contains(Join[snippet_lines], LicenseSEL)
    /\ snippets_removed' = snippets_removed + Len(snippet_lines)
    /\ i' = j + 1
    /\ scan_pc' = "outer"
    /\ UNCHANGED <<content, lines, result_lines, j, snippet_start, snippet_lines,
                   modified_content, pass, first_result, envVars, gateVars, mainVars>>

\* variant: a span that reaches end of input unterminated is never dropped
SnippetDrop_TerminatedOnly ==
    /\ scan_pc = "check"
    /\ Contains(Join[snippet_lines], LicenseSEL)
    /\ IF j < Len(lines)
       THEN /\ snippets_removed' = snippets_removed + 1
            /\ i' = j + 1
            /\ UNCHANGED result_lines
       ELSE /\ result_lines' = Append(result_lines, lines[i + 1])
            /\ i' = i + 1
            /\ UNCHANGED snippets_removed
    /\ scan_pc' = "outer"
    /\ UNCHANGED <<content, lines, j, snippet_start, snippet_lines,
                   modified_content, pass, first_result, envVars, gateVars, mainVars>>

\* lines 116-121: the snippet holds the license marker, skip it
SnippetDrop ==
    /\ scan_pc = "check"
    /\ Contains(Join[snippet_lines], LicenseSEL)
    /\ snippets_removed' = snippets_removed + 1
    /\ i' = j + 1
    /\ scan_pc' = "outer"
    /\ UNCHANGED <<content, lines, result_lines, j, snippet_start, snippet_lines,
                   modified_content, pass, first_result, envVars, gateVars, mainVars>>

\* variant: a kept span is emitted whole and its lines are scanned again
SnippetKeep_EmitsSpanAndRescans ==
    /\ scan_pc = "check"
    /\ ~Contains(Join[snippet_lines], LicenseSEL)
    /\ result_lines' = result_lines \o snippet_lines
    /\ i' = i + 1
    /\ scan_pc' = "outer"
    /\ UNCHANGED <<content, lines, j, snippet_start, snippet_lines,
                   snippets_removed, modified_content, pass, first_result, envVars, gateVars, mainVars>>

\* variant: a kept span emits its first line and resumes after the span
SnippetKeep_SkipSpan ==
    /\ scan_pc = "check"
    /\ ~Contains(Join[snippet_lines], LicenseSEL)
    /\ result_lines' = Append(result_lines, lines[i + 1])
    /\ i' = j + 1
    /\ scan_pc' = "outer"
    /\ UNCHANGED <<content, lines, j, snippet_start, snippet_lines,
                   snippets_removed, modified_content, pass, first_result, envVars, gateVars, mainVars>>

\* variant: a kept span emits its first line and does not advance
SnippetKeep_NoAdvance ==
    /\ scan_pc = "check"
    /\ ~Contains(Join[snippet_lines], LicenseSEL)
    /\ result_lines' = IF Len(result_lines) < MaxLines + 2
                       THEN Append(result_lines, lines[i + 1]) ELSE result_lines
    /\ i' = i
    /\ scan_pc' = "outer"
    /\ UNCHANGED <<content, lines, j, snippet_start, snippet_lines,
                   snippets_removed, modified_content, pass, first_result, envVars, gateVars, mainVars>>

\* lines 116-117, 122-125: the snippet is kept, emit its first line
SnippetKeep ==
    /\ scan_pc = "check"
    /\ ~Contains(Join[snippet_lines], LicenseSEL)
    /\ result_lines' = Append(result_lines, lines[i + 1])
    /\ i' = i + 1
    /\ scan_pc' = "outer"
    /\ UNCHANGED <<content, lines, j, snippet_start, snippet_lines,
                   snippets_removed, modified_content, pass, first_result, envVars, gateVars, mainVars>>

\* lines 98, 130: the outer loop ends, the function returns
ScanReturn ==
    /\ scan_pc = "outer"
    /\ ~(i < Len(lines))
    /\ modified_content' = Join[result_lines]
    /\ scan_pc' = "returned"
    /\ UNCHANGED <<content, lines, result_lines, i, j, snippet_start, snippet_lines,
                   snippets_removed, pass, first_result, envVars, gateVars, mainVars>>

\* the function is applied again to the content it returned
ScanAgain ==
    /\ scan_pc = "returned"
    /\ pass = 1
    /\ first_result' = <<modified_content, snippets_removed>>
    /\ content' = modified_content
    /\ pass' = 2
    /\ scan_pc' = "entry"
    /\ UNCHANGED <<lines, result_lines, i, j, snippet_start, snippet_lines,
                   snippets_removed, modified_content, envVars, gateVars, mainVars>>

ScanNext ==
    \/ ScanEntry \/ OuterPlain \/ OuterBegin \/ InnerAdvance \/ InnerBreak
    \/ InnerExhausted \/ SnippetDrop \/ SnippetKeep \/ ScanReturn \/ ScanAgain

SpecScan == ScanInit /\ [][ScanNext]_vars

SpecScanFair == SpecScan /\ WF_vars(ScanNext)

\* the step machine returns what the operator computes
ScanAgreesWithOperator ==
    scan_pc = "returned" =>
        <<modified_content, snippets_removed>> = remove_proprietary_snippets(content)

(* ------------------- should_remove_file on one file -------------------- *)
GateLineShapes ==
    { <<>>, CodeLine, <<SnippetBegin>>,
      <<LineComment, SP, "Copyright">>,
      <<SP, LineComment, SP, LicenseSEL>>,
      <<BlockOpen, SP, "Copyright">>,
      <<SP, "*", SP, LicenseSEL>>,
      <<SP, BlockClose>>,
      <<BlockOpen, SP, LicenseSEL, SP, BlockClose>> }

GateContents == {Join[ls] : ls \in SeqsOf(GateLineShapes, 1, MaxGateLines)}

GatePath == "a.rs"

GateInit ==
    /\ ScanIdle /\ MainIdle
    /\ \E text \in GateContents : fs = (GatePath :> text)
    /\ \E ops \in {{}, {"read_gate"}} : faults = (GatePath :> ops)
    /\ gate_pc = "call" /\ gate_ret = FALSE /\ gate_comment = NoBlock

GateCall ==
    /\ gate_pc = "call"
    /\ gate_ret' = should_remove_file(GatePath)
    /\ gate_comment' = IF Raises(GatePath, "read_gate") THEN NoBlock
                       ELSE find_first_comment_block(fs[GatePath])
    /\ gate_pc' = "returned"
    /\ UNCHANGED <<scanVars, envVars, mainVars>>

GateNext == GateCall

SpecGate == GateInit /\ [][GateNext]_vars

(* ------------------------------- main --------------------------------- *)
Paths == <<"a.rs", "b.rs", "c.rs", "d.rs">>

\* file contents the trees are built from
PlainFile == <<"fn f() {}", NL>>
LicensedFile ==
    << BlockOpen, NL, SP, "*", SP, LicenseSEL, NL, SP, BlockClose, NL,
       SnippetBegin, NL, LineComment, SP, LicenseSEL, NL, SnippetEnd, NL >>
OneSnippetFile ==
    << "fn f() {}", NL, SnippetBegin, NL, LineComment, SP, LicenseSEL, NL,
       "fn g() {}", NL, SnippetEnd, NL >>
TwoSnippetFile ==
    << "fn f() {}", NL, SnippetBegin, SP, LicenseSEL, NL, SnippetEnd, NL,
       SnippetBegin, NL, LineComment, SP, LicenseSEL >>

FileContents == {PlainFile, LicensedFile, OneSnippetFile, TwoSnippetFile}

\* what fails on a path: nothing, the file cannot be decoded (both reads),
\* only one of the two reads fails, the file or its directory is read-only
FaultSets == { {}, {"read_gate", "read"}, {"read_gate"}, {"read"},
               {"remove", "write"}, {"read_gate", "remove", "write"} }

\* os.walk order is fixed for a given tree: the paths that exist, in order
find_rust_files(tree) ==
    LET WalkFrom[k \in 1..(Len(Paths) + 1)] ==
            IF k > Len(Paths) THEN <<>>
            ELSE IF Paths[k] \in DOMAIN tree THEN <<Paths[k]>> \o WalkFrom[k + 1]
            ELSE WalkFrom[k + 1]
    IN WalkFrom[1]

NoError == "None"

\* result dict of lines 138-143
NewResult(file_path) ==
    [file |-> file_path, action |-> "none", snippets_removed |-> 0, error |-> NoError]

Event(op, file_path, ok) == [op |-> op, file |-> file_path, ok |-> ok]

MainInit ==
    /\ ScanIdle /\ GateIdle
    /\ \E n \in 0..MaxFiles :
          LET P == {Paths[k] : k \in 1..n}
          IN /\ fs \in [P -> FileContents]
             /\ faults \in [P -> FaultSets]
    /\ fs0 = fs
    /\ dir_valid \in BOOLEAN /\ dry_run \in BOOLEAN
    /\ pc = "start" /\ rust_files = <<>> /\ idx = 0
    /\ files_removed = 0 /\ files_with_snippets_removed = 0
    /\ total_snippets_removed = 0 /\ errors = <<>>
    /\ result = <<>> /\ to_write = <<>> /\ summary = <<>> /\ exit_code = 0
    /\ log = <<>> /\ results = <<>> /\ run = 1 /\ predicted = <<>>

\* lines 206-208
InvalidRoot ==
    /\ pc = "start" /\ ~dir_valid
    /\ exit_code' = 1
    /\ pc' = "exited"
    /\ UNCHANGED <<scanVars, envVars, gateVars, dir_valid, dry_run, rust_files, idx,
                   counterVars, result, to_write, summary, log, results, histVars>>

\* lines 206-215
Discover ==
    /\ pc = "start" /\ dir_valid
    /\ rust_files' = find_rust_files(fs)
    /\ pc' = "found"
    /\ UNCHANGED <<scanVars, envVars, gateVars, dir_valid, dry_run, idx, counterVars,
                   result, to_write, summary, exit_code, log, results, histVars>>

\* lines 217-219
NoFiles ==
    /\ pc = "found" /\ rust_files = <<>>
    /\ exit_code' = 0
    /\ pc' = "exited"
    /\ UNCHANGED <<scanVars, envVars, gateVars, dir_valid, dry_run, rust_files, idx,
                   counterVars, result, to_write, summary, log, results, histVars>>

\* lines 221-227
BeginLoop ==
    /\ pc = "found" /\ rust_files # <<>>
    /\ files_removed' = 0
    /\ files_with_snippets_removed' = 0
    /\ total_snippets_removed' = 0
    /\ errors' = <<>>
    /\ idx' = 0
    /\ pc' = "loop"
    /\ UNCHANGED <<scanVars, envVars, gateVars, dir_valid, dry_run, rust_files,
                   result, to_write, summary, exit_code, log, results, histVars>>

(* -------------------------- process_rust_file -------------------------- *)
\* variant: the early return sits inside 'if not dry_run'
GateRemoves_ReturnOnlyWhenReal ==
    /\ pc = "loop" /\ idx < Len(rust_files)
    /\ should_remove_file(rust_files[idx + 1])
    /\ result' = [NewResult(rust_files[idx + 1]) EXCEPT !.action = "file_removed"]
    /\ log' = Append(log, Event("should_remove_file", rust_files[idx + 1], TRUE))
    /\ pc' = IF dry_run THEN "read" ELSE "remove"
    /\ UNCHANGED <<scanVars, envVars, gateVars, dir_valid, dry_run, rust_files, idx,
                   counterVars, to_write, summary, exit_code, results, histVars>>

\* variant: dry_run is not consulted before os.remove
GateRemoves_IgnoresDryRun ==
    /\ pc = "loop" /\ idx < Len(rust_files)
    /\ should_remove_file(rust_files[idx + 1])
    /\ result' = [NewResult(rust_files[idx + 1]) EXCEPT !.action = "file_removed"]
    /\ log' = Append(log, Event("should_remove_file", rust_files[idx + 1], TRUE))
    /\ pc' = "remove"
    /\ UNCHANGED <<scanVars, envVars, gateVars, dir_valid, dry_run, rust_files, idx,
                   counterVars, to_write, summary, exit_code, results, histVars>>

\* lines 229-230, 138-149: the whole-file gate says remove
GateRemoves ==
    /\ pc = "loop" /\ idx < Len(rust_files)
    /\ should_remove_file(rust_files[idx + 1])
    /\ result' = [NewResult(rust_files[idx + 1]) EXCEPT !.action = "file_removed"]
    /\ log' = Append(log, Event("should_remove_file", rust_files[idx + 1], TRUE))
    /\ pc' = IF dry_run THEN "return" ELSE "remove"
    /\ UNCHANGED <<scanVars, envVars, gateVars, dir_valid, dry_run, rust_files, idx,
                   counterVars, to_write, summary, exit_code, results, histVars>>

\* lines 229-230, 138-147: the whole-file gate says keep
GateKeeps ==
    /\ pc = "loop" /\ idx < Len(rust_files)
    /\ ~should_remove_file(rust_files[idx + 1])
    /\ result' = NewResult(rust_files[idx + 1])
    /\ log' = Append(log, Event("should_remove_file", rust_files[idx + 1], FALSE))
    /\ pc' = "read"
    /\ UNCHANGED <<scanVars, envVars, gateVars, dir_valid, dry_run, rust_files, idx,
                   counterVars, to_write, summary, exit_code, results, histVars>>

\* lines 150-151
RemoveFile ==
    /\ pc = "remove"
    /\ ~Raises(result.file, "remove")
    /\ fs' = [p \in DOMAIN fs \ {result.file} |-> fs[p]]
    /\ log' = Append(log, Event("os.remove", result.file, TRUE))
    /\ pc' = "return"
    /\ UNCHANGED <<scanVars, faults, gateVars, dir_valid, dry_run, rust_files, idx,
                   counterVars, result, to_write, summary, exit_code, results, histVars>>

\* lines 150, 167-168
RemoveFails ==
    /\ pc = "remove"
    /\ Raises(result.file, "remove")
    /\ result' = [result EXCEPT !.error = "os.remove failed"]
    /\ log' = Append(log, Event("os.remove", result.file, FALSE))
    /\ pc' = "return"
    /\ UNCHANGED <<scanVars, envVars, gateVars, dir_valid, dry_run, rust_files, idx,
                   counterVars, to_write, summary, exit_code, results, histVars>>

\* lines 154-155, 167-168
ReadFails ==
    /\ pc = "read"
    /\ Raises(result.file, "read")
    /\ result' = [result EXCEPT !.error = "read failed"]
    /\ pc' = "return"
    /\ UNCHANGED <<scanVars, envVars, gateVars, dir_valid, dry_run, rust_files, idx,
                   counterVars, to_write, summary, exit_code, log, results, histVars>>

\* variant: the content is written back whatever the removed count
ScanFindsNothing_Writes ==
    /\ pc = "read"
    /\ ~Raises(result.file, "read")
    /\ LET r == remove_proprietary_snippets(fs[result.file])
       IN /\ r[2] = 0
          /\ to_write' = r[1]
    /\ log' = Append(log, Event("remove_proprietary_snippets", result.file, TRUE))
    /\ pc' = IF dry_run THEN "return" ELSE "write"
    /\ UNCHANGED <<scanVars, envVars, gateVars, dir_valid, dry_run, rust_files, idx,
                   counterVars, result, summary, exit_code, results, histVars>>

\* lines 154-159: nothing was removed
ScanFindsNothing ==
    /\ pc = "read"
    /\ ~Raises(result.file, "read")
    /\ remove_proprietary_snippets(fs[result.file])[2] = 0
    /\ log' = Append(log, Event("remove_proprietary_snippets", result.file, TRUE))
    /\ pc' = "return"
    /\ UNCHANGED <<scanVars, envVars, gateVars, dir_valid, dry_run, rust_files, idx,
                   counterVars, result, to_write, summary, exit_code, results, histVars>>

\* lines 154-163: snippets were removed
ScanRemoves ==
    /\ pc = "read"
    /\ ~Raises(result.file, "read")
    /\ LET r == remove_proprietary_snippets(fs[result.file])
       IN /\ r[2] > 0
          /\ result' = [result EXCEPT !.action = "snippets_removed",
                                      !.snippets_removed = r[2]]
          /\ to_write' = r[1]
    /\ log' = Append(log, Event("remove_proprietary_snippets", result.file, TRUE))
    /\ pc' = IF dry_run THEN "return" ELSE "write"
    /\ UNCHANGED <<scanVars, envVars, gateVars, dir_valid, dry_run, rust_files, idx,
                   counterVars, summary, exit_code, results, histVars>>

\* variant: the content that was read is written back
WriteFile_WritesOldContent ==
    /\ pc = "write"
    /\ ~Raises(result.file, "write")
    /\ fs' = [fs EXCEPT ![result.file] = fs[result.file]]
    /\ log' = Append(log, Event("write", result.file, TRUE))
    /\ pc' = "return"
    /\ UNCHANGED <<scanVars, faults, gateVars, dir_valid, dry_run, rust_files, idx,
                   counterVars, result, to_write, summary, exit_code, results, histVars>>

\* variant: the content is written to the first path of the list
WriteFile_StalePath ==
    /\ pc = "write"
    /\ ~Raises(rust_files[1], "write")
    /\ fs' = [fs EXCEPT ![rust_files[1]] = to_write]
    /\ log' = Append(log, Event("write", rust_files[1], TRUE))
    /\ pc' = "return"
    /\ UNCHANGED <<scanVars, faults, gateVars, dir_valid, dry_run, rust_files, idx,
                   counterVars, result, to_write, summary, exit_code, results, histVars>>

\* lines 164-165
WriteFile ==
    /\ pc = "write"
    /\ ~Raises(result.file, "write")
    /\ fs' = [fs EXCEPT ![result.file] = to_write]
    /\ log' = Append(log, Event("write", result.file, TRUE))
    /\ pc' = "return"
    /\ UNCHANGED <<scanVars, faults, gateVars, dir_valid, dry_run, rust_files, idx,
                   counterVars, result, to_write, summary, exit_code, results, histVars>>

\* lines 164, 167-168: open(file_path, 'w') raises, the file is left as it was
WriteFails ==
    /\ pc = "write"
    /\ Raises(result.file, "write")
    /\ result' = [result EXCEPT !.error = "write failed"]
    /\ log' = Append(log, Event("write", result.file, FALSE))
    /\ pc' = "return"
    /\ UNCHANGED <<scanVars, envVars, gateVars, dir_valid, dry_run, rust_files, idx,
                   counterVars, to_write, summary, exit_code, results, histVars>>

(* --------------------- main: accounting of a result -------------------- *)
\* variant: the error branch does not 'continue'
AccountError_NoContinue ==
    /\ pc = "return"
    /\ result.error # NoError
    /\ errors' = Append(errors, <<result.file, result.error>>)
    /\ files_removed' = files_removed + (IF result.action = "file_removed" THEN 1 ELSE 0)
    /\ files_with_snippets_removed' =
          files_with_snippets_removed + (IF result.action = "snippets_removed" THEN 1 ELSE 0)
    /\ total_snippets_removed' = total_snippets_removed + result.snippets_removed
    /\ results' = Append(results, result)
    /\ idx' = idx + 1
    /\ pc' = "loop"
    /\ UNCHANGED <<scanVars, envVars, gateVars, dir_valid, dry_run, rust_files,
                   result, to_write, summary, exit_code, log, histVars>>

\* variant: the exception is not caught and ends the run
AccountError_Aborts ==
    /\ pc = "return"
    /\ result.error # NoError
    /\ results' = Append(results, result)
    /\ exit_code' = 1
    /\ pc' = "exited"
    /\ UNCHANGED <<scanVars, envVars, gateVars, dir_valid, dry_run, rust_files, idx,
                   counterVars, result, to_write, summary, log, histVars>>

\* lines 170, 232-234
AccountError ==
    /\ pc = "return"
    /\ result.error # NoError
    /\ errors' = Append(errors, <<result.file, result.error>>)
    /\ results' = Append(results, result)
    /\ idx' = idx + 1
    /\ pc' = "loop"
    /\ UNCHANGED <<scanVars, envVars, gateVars, dir_valid, dry_run, rust_files,
                   files_removed, files_with_snippets_removed, total_snippets_removed,
                   result, to_write, summary, exit_code, log, histVars>>

\* lines 170, 236-240
AccountFileRemoved ==
    /\ pc = "return"
    /\ result.error = NoError
    /\ result.action = "file_removed"
    /\ files_removed' = files_removed + 1
    /\ results' = Append(results, result)
    /\ idx' = idx + 1
    /\ pc' = "loop"
    /\ UNCHANGED <<scanVars, envVars, gateVars, dir_valid, dry_run, rust_files,
                   files_with_snippets_removed, total_snippets_removed, errors,
                   result, to_write, summary, exit_code, log, histVars>>

\* lines 170, 242-247
AccountSnippetsRemoved ==
    /\ pc = "return"
    /\ result.error = NoError
    /\ result.action # "file_removed"
    /\ result.action = "snippets_removed"
    /\ files_with_snippets_removed' = files_with_snippets_removed + 1
    /\ total_snippets_removed' = total_snippets_removed + result.snippets_removed
    /\ results' = Append(results, result)
    /\ idx' = idx + 1
    /\ pc' = "loop"
    /\ UNCHANGED <<scanVars, envVars, gateVars, dir_valid, dry_run, rust_files,
                   files_removed, errors, result, to_write, summary, exit_code,
                   log, histVars>>

\* lines 170, 232-242: no branch applies
AccountUnchanged ==
    /\ pc = "return"
    /\ result.error = NoError
    /\ result.action \notin {"file_removed", "snippets_removed"}
    /\ results' = Append(results, result)
    /\ idx' = idx + 1
    /\ pc' = "loop"
    /\ UNCHANGED <<scanVars, envVars, gateVars, dir_valid, dry_run, rust_files,
                   counterVars, result, to_write, summary, exit_code, log, histVars>>

\* lines 229, 250-261
Summary ==
    /\ pc = "loop" /\ ~(idx < Len(rust_files))
    /\ summary' = << [files_removed |-> files_removed,
                      total_snippets_removed |-> total_snippets_removed,
                      files_with_snippets_removed |-> files_with_snippets_removed,
                      errors |-> errors] >>
    /\ exit_code' = 0
    /\ pc' = "exited"
    /\ UNCHANGED <<scanVars, envVars, gateVars, dir_valid, dry_run, rust_files, idx,
                   counterVars, result, to_write, log, results, histVars>>

\* line 261 "Run without --dry-run to apply changes": the preview is followed
\* by a real run on the same tree
RealRunAfterPreview ==
    /\ pc = "exited" /\ run = 1 /\ dry_run /\ dir_valid
    /\ predicted' = <<results, summary>>
    /\ run' = 2
    /\ dry_run' = FALSE
    /\ fs' = fs0
    /\ pc' = "start"
    /\ rust_files' = <<>> /\ idx' = 0
    /\ files_removed' = 0 /\ files_with_snippets_removed' = 0
    /\ total_snippets_removed' = 0 /\ errors' = <<>>
    /\ result' = <<>> /\ to_write' = <<>> /\ summary' = <<>> /\ exit_code' = 0
    /\ log' = <<>> /\ results' = <<>>
    /\ UNCHANGED <<scanVars, faults, gateVars, dir_valid, fs0>>

Next ==
    \/ InvalidRoot \/ Discover \/ NoFiles \/ BeginLoop
    \/ GateRemoves \/ GateKeeps \/ RemoveFile \/ RemoveFails
    \/ ReadFails \/ ScanFindsNothing \/ ScanRemoves \/ WriteFile \/ WriteFails
    \/ AccountError \/ AccountFileRemoved \/ AccountSnippetsRemoved \/ AccountUnchanged
    \/ Summary \/ RealRunAfterPreview

Spec == MainInit /\ [][Next]_vars

\* the interpreter keeps executing statements until main returns
SpecFair == Spec /\ WF_vars(Next)

(* ------------------- a real run followed by a real run ------------------ *)
\* line shapes of the single-file trees: a snippet may begin on a code line
FileLineShapes ==
    { <<>>, CodeLine, <<SnippetBegin>>, <<SnippetEnd>>,
      <<SP, LineComment, SP, LicenseSEL>>,
      <<"fn f() {}", SP, SnippetBegin>> }

RerunContents == {Join[ls] : ls \in SeqsOf(FileLineShapes, 1, MaxLines)}

\* a tree of one fault-free file with any content for a real run, or a tree
\* of at most one sample file with any faults and any mode
RerunInit ==
    /\ ScanIdle /\ GateIdle
    /\ \/ /\ fs \in [{Paths[1]} -> RerunContents]
          /\ faults = (Paths[1] :> {})
          /\ dir_valid = TRUE /\ dry_run = FALSE
       \/ /\ \E n \in 0..1 :
                LET P == {Paths[k] : k \in 1..n}
                IN /\ fs \in [P -> FileContents]
                   /\ faults \in [P -> FaultSets]
          /\ dir_valid \in BOOLEAN /\ dry_run \in BOOLEAN
    /\ fs0 = fs
    /\ pc = "start" /\ rust_files = <<>> /\ idx = 0
    /\ files_removed = 0 /\ files_with_snippets_removed = 0
    /\ total_snippets_removed = 0 /\ errors = <<>>
    /\ result = <<>> /\ to_write = <<>> /\ summary = <<>> /\ exit_code = 0
    /\ log = <<>> /\ results = <<>> /\ run = 1 /\ predicted = <<>>

\* main is invoked again, without --dry-run, on the tree that a real run
\* without errors left behind
SecondRealRun ==
    /\ pc = "exited" /\ run \in {1, 2} /\ ~dry_run /\ dir_valid
    /\ summary # <<>> /\ summary[1].errors = <<>>
    /\ predicted' = <<results, summary>>
    /\ run' = 3
    /\ fs0' = fs
    /\ pc' = "start"
    /\ rust_files' = <<>> /\ idx' = 0
    /\ files_removed' = 0 /\ files_with_snippets_removed' = 0
    /\ total_snippets_removed' = 0 /\ errors' = <<>>
    /\ result' = <<>> /\ to_write' = <<>> /\ summary' = <<>> /\ exit_code' = 0
    /\ log' = <<>> /\ results' = <<>>
    /\ UNCHANGED <<scanVars, envVars, gateVars, dir_valid, dry_run>>

NextRerun == Next \/ SecondRealRun

SpecRerun == RerunInit /\ [][NextRerun]_vars

(* -------------------- spans, stated independently ---------------------- *)
\* 1-based index of the first SnippetEnd line at or after s, else the last line
FirstEnd(ls, s) ==
    IF \E e \in s..Len(ls) : Contains(ls[e], SnippetEnd)
    THEN CHOOSE e \in s..Len(ls) :
            /\ Contains(ls[e], SnippetEnd)
            /\ \A m \in s..(e - 1) : ~Contains(ls[m], SnippetEnd)
    ELSE Len(ls)

SpanLicensed(ls, s) == \E k \in s..FirstEnd(ls, s) : Contains(ls[k], LicenseSEL)

\* k lies in the span of one of the begin lines in D
Covered(ls, D, k) == \E d \in D : d <= k /\ k <= FirstEnd(ls, d)

\* begin lines of the dropped spans: licensed, and in no earlier dropped span
DroppedStarts(ls) ==
    CHOOSE D \in SUBSET (1..Len(ls)) :
        \A s \in 1..Len(ls) :
            s \in D <=> /\ Contains(ls[s], SnippetBegin)
                        /\ SpanLicensed(ls, s)
                        /\ ~Covered(ls, {d \in D : d < s}, s)

KeptIndices(ls) == {k \in 1..Len(ls) : ~Covered(ls, DroppedStarts(ls), k)}

\* the lines of ls at the indices K, in their order in ls
Pick(ls, K) ==
    [m \in 1..Cardinality(K) |->
        ls[CHOOSE k \in K : Cardinality({h \in K : h <= k}) = m]]

ExampleContent ==
    << SnippetBegin, NL, "fn secret() {}", NL, LineComment, SP, LicenseSEL, NL,
       SnippetEnd, NL, "fn public() {}", NL >>

(* ------------------------------ claims --------------------------------- *)
\* C1: applying remove_proprietary_snippets to its own output returns that
\* output unchanged with a removed count of 0.
C1_Idempotent ==
    (pass = 2 /\ scan_pc = "returned") =>
        /\ modified_content = first_result[1]
        /\ snippets_removed = 0

\* the second application has returned for an input whose first application
\* dropped a span and left a SnippetEnd line behind
C1_Witness ==
    /\ pass = 2 /\ scan_pc = "returned"
    /\ first_result[2] > 0
    /\ Contains(first_result[1], SnippetEnd)

\* C2: the output lines are exactly the input lines that lie in no dropped
\* span (a span from a begin line to the first following end line or the end
\* of input that holds the license marker), unchanged and in order; the
\* example content yields "fn public() {}\n" with removed count 1.
C2_OutputIsKeptLines ==
    /\ (pass = 1 /\ scan_pc = "returned") =>
          /\ result_lines = Pick(Split(content), KeptIndices(Split(content)))
          /\ modified_content = Join[result_lines]
          /\ remove_proprietary_snippets(content) = <<modified_content, snippets_removed>>
    /\ remove_proprietary_snippets(ExampleContent) = << <<"fn public() {}", NL>>, 1 >>

\* a span was dropped between lines that were kept
C2_Witness ==
    /\ pass = 1 /\ scan_pc = "returned"
    /\ snippets_removed = 1
    /\ Len(result_lines) >= 2
    /\ result_lines[1] # result_lines[2]

\* C7: a begin line reached by the scan with no end line at or after it opens
\* a span to the end of input; licensed, the output is the output for the
\* lines before it and it counts as one removed span; otherwise every line
\* from the begin line on is preserved.
C7_UnterminatedSpan ==
    (pass = 1 /\ scan_pc = "returned") =>
        LET ls == Split(content)
            n == Len(ls)
        IN \A s \in 1..n :
              ( /\ Contains(ls[s], SnippetBegin)
                /\ \A e \in s..n : ~Contains(ls[e], SnippetEnd)
                /\ ~Covered(ls, {d \in DroppedStarts(ls) : d < s}, s) )
              => IF \E k \in s..n : Contains(ls[k], LicenseSEL)
                 THEN LET before == remove_proprietary_snippets(Join[SubSeq(ls, 1, s - 1)])
                      IN /\ modified_content = before[1]
                         /\ snippets_removed = before[2] + 1
                 ELSE /\ Len(result_lines) >= n - s + 1
                      /\ SubSeq(result_lines, Len(result_lines) - (n - s), Len(result_lines))
                            = SubSeq(ls, s, n)

\* an unterminated licensed span was dropped after lines that were emitted
C7_Witness ==
    /\ pass = 1 /\ scan_pc = "returned"
    /\ i = Len(lines) + 1
    /\ Len(result_lines) > 0
    /\ \A k \in 1..Len(lines) : ~Contains(lines[k], SnippetEnd)

\* C8: the scan terminates; the outer pointer strictly increases on every
\* iteration of the outer loop, the look-ahead pointer strictly increases
\* until an end line or the end of input, and no index past the last line is
\* read.
C8_Terminates ==
    /\ (scan_pc = "entry") ~> (scan_pc = "returned")
    /\ [][(scan_pc \in {"outer", "check"} /\ scan_pc' = "outer") => i' > i]_vars
    /\ [][(scan_pc = "inner" /\ scan_pc' = "inner") => j' > j]_vars
    /\ [](scan_pc \in {"inner", "check"} => (i < Len(lines) /\ i <= j /\ j <= Len(lines)))
    /\ [](scan_pc = "outer" => i <= Len(lines) + 1)

\* the look-ahead of a nested begin line ran to the end of input
C8_Witness ==
    /\ scan_pc = "check"
    /\ j = Len(lines)
    /\ j > i + 1
    /\ \E k \in (i + 2)..j : Contains(lines[k], SnippetBegin)

\* 1-based indices of the lines of ls that make up the leading comment block
LeadingBlock(ls) ==
    IF StartsWithBlockOpen(Strip(ls[1]))
    THEN {k \in 1..Len(ls) : \A m \in 1..(k - 1) : ~Contains(ls[m], BlockClose)}
    ELSE IF StartsWithLineComment(Strip(ls[1]))
    THEN {k \in 1..Len(ls) :
            \A m \in 1..k : StartsWithLineComment(Strip(ls[m])) \/ Strip(ls[m]) = <<>>}
    ELSE {}

\* C4: for a readable file should_remove_file is true iff a leading comment
\* block is found (content trimmed as a whole) and a line of that block holds
\* the license marker; a marker after the block never makes it true.
C4_GateIffMarkerInLeadingBlock ==
    (gate_pc = "returned" /\ ~Raises(GatePath, "read_gate")) =>
        LET ls == Split(Strip(fs[GatePath]))
        IN gate_ret = (\E k \in LeadingBlock(ls) : Contains(ls[k], LicenseSEL))

\* the gate said no to a file whose marker lies after a leading comment block
C4_Witness ==
    /\ gate_pc = "returned" /\ ~Raises(GatePath, "read_gate")
    /\ gate_ret = FALSE
    /\ LeadingBlock(Split(Strip(fs[GatePath]))) # {}
    /\ Contains(fs[GatePath], LicenseSEL)

InProcess == pc \in {"remove", "read", "write", "return"}

\* C3: when should_remove_file returns true for a file the decision is file
\* removal, remove_proprietary_snippets is never invoked on that file and the
\* file is never rewritten.
C3_GatePrecedence ==
    \A p \in 1..Len(log) :
        (log[p].op = "should_remove_file" /\ log[p].ok) =>
            /\ \A q \in 1..Len(log) :
                  log[q].file = log[p].file =>
                      log[q].op \notin {"remove_proprietary_snippets", "write"}
            /\ \A k \in 1..Len(results) :
                  results[k].file = log[p].file => results[k].action = "file_removed"
            /\ (InProcess /\ result.file = log[p].file) =>
                  (result.action = "file_removed" /\ pc \in {"remove", "return"})
            /\ log[p].file \in DOMAIN fs => fs[log[p].file] = fs0[log[p].file]

\* a real run deleted a license-headed file that also holds a licensed snippet
C3_Witness ==
    /\ pc = "exited" /\ ~dry_run
    /\ \E p \in 1..Len(log) :
          /\ log[p].op = "should_remove_file" /\ log[p].ok
          /\ Contains(fs0[log[p].file], SnippetBegin)
          /\ log[p].file \notin DOMAIN fs

SameDecisions(rs1, rs2) ==
    /\ Len(rs1) = Len(rs2)
    /\ \A k \in 1..Len(rs1) :
          /\ rs1[k].file = rs2[k].file
          /\ rs1[k].action = rs2[k].action
          /\ rs1[k].snippets_removed = rs2[k].snippets_removed

\* s1, s2: what two runs printed as summary (<<>> when none was printed)
SameCounters(s1, s2) ==
    IF s1 = <<>> \/ s2 = <<>> THEN s1 = s2
    ELSE /\ s1[1].files_removed = s2[1].files_removed
         /\ s1[1].total_snippets_removed = s2[1].total_snippets_removed
         /\ s1[1].files_with_snippets_removed = s2[1].files_with_snippets_removed

\* C5: a dry-run pass and a real pass over identical trees produce the same
\* action and snippets_removed for every file and the same summary counters.
C5_PreviewEqualsReal ==
    (run = 2 /\ pc = "exited") =>
        /\ SameDecisions(predicted[1], results)
        /\ SameCounters(predicted[2], summary)

\* the per-file half of C5: the result dicts of the two passes agree
PreviewDecisionsEqualReal ==
    (run = 2 /\ pc = "exited") => SameDecisions(predicted[1], results)

\* the two passes agree on the counters when no delete or rewrite fails
PreviewEqualsRealWithoutWriteErrors ==
    (run = 2 /\ pc = "exited"
        /\ \A q \in 1..Len(log) : log[q].op \in {"os.remove", "write"} => log[q].ok)
    => SameCounters(predicted[2], summary)

\* C6: in dry-run mode the set of files and the content of every file stay
\* what they were before the run.
C6_DryRunLeavesTree == dry_run => fs = fs0

\* a preview ended that reported a file removal and removed snippets
C6_Witness ==
    /\ dry_run /\ pc = "exited" /\ summary # <<>>
    /\ summary[1].files_removed > 0
    /\ summary[1].total_snippets_removed > 0

\* C9 as stated: for every list of discovered files, of any length, the run
\* ends with the summary emitted.
C9_AlwaysSummary == (pc = "exited" /\ dir_valid) => summary # <<>>

\* C9 amended: for a valid root and a non-empty list of discovered files,
\* whatever files fail, the run eventually ends the loop and emits the
\* summary.
C9_SummaryWhenFilesFound ==
    (pc = "start" /\ dir_valid /\ DOMAIN fs # {})
        ~> (pc = "exited" /\ summary # <<>>)

\* the summary was emitted by a run in which every file failed
C9_Witness ==
    /\ pc = "exited" /\ summary # <<>>
    /\ Len(rust_files) >= 2
    /\ Len(summary[1].errors) = Len(rust_files)

CountOf(rs, P(_)) == Cardinality({k \in 1..Len(rs) : P(rs[k])})

IsError(r) == r.error # NoError
IsFileRemoved(r) == r.error = NoError /\ r.action = "file_removed"
IsSnippetsRemoved(r) == r.error = NoError /\ r.action = "snippets_removed"
IsUnchanged(r) == r.error = NoError /\ r.action = "none"

RECURSIVE ErrorEntries(_)
ErrorEntries(rs) ==
    IF rs = <<>> THEN <<>>
    ELSE (IF IsError(rs[1]) THEN << <<rs[1].file, rs[1].error>> >> ELSE <<>>)
            \o ErrorEntries(Tail(rs))

RECURSIVE GateCalls(_)
GateCalls(events) ==
    IF events = <<>> THEN <<>>
    ELSE (IF events[1].op = "should_remove_file" THEN <<events[1].file>> ELSE <<>>)
            \o GateCalls(Tail(events))

Accounting ==
    /\ Len(results) = idx
    /\ \A k \in 1..Len(results) : results[k].file = rust_files[k]
    /\ GateCalls(log) = SubSeq(rust_files, 1, idx + (IF InProcess THEN 1 ELSE 0))
    /\ files_removed = CountOf(results, IsFileRemoved)
    /\ files_with_snippets_removed = CountOf(results, IsSnippetsRemoved)
    /\ errors = ErrorEntries(results)
    /\ files_removed + files_with_snippets_removed + Len(errors)
          + CountOf(results, IsUnchanged) = Len(results)
    /\ total_snippets_removed >= files_with_snippets_removed

CountersGrow ==
    /\ files_removed' >= files_removed
    /\ total_snippets_removed' >= total_snippets_removed
    /\ files_with_snippets_removed' >= files_with_snippets_removed
    /\ Len(errors') >= Len(errors)

\* C10: every discovered file is processed exactly once, in list order,
\* whether or not earlier files failed; each file counts in exactly one of
\* files removed, files with snippets removed, unchanged, errors; a failing
\* file adds one entry keyed by its path; the counters never decrease during
\* a run and total snippets removed >= files with snippets removed.
C10_FailureIsolation ==
    /\ []Accounting
    /\ [][run' = run => CountersGrow]_vars
    /\ [](pc = "exited" /\ summary # <<>> => idx = Len(rust_files))

\* the first file failed and a later file was still removed or rewritten
C10_Witness ==
    /\ pc = "exited" /\ summary # <<>>
    /\ Len(results) >= 2
    /\ IsError(results[1])
    /\ files_removed + files_with_snippets_removed > 0

HasActionFileRemoved(r) == r.action = "file_removed"
HasActionSnippetsRemoved(r) == r.action = "snippets_removed"

\* the decision of results[k] was made and its delete or rewrite failed
MutationFailed(r) == r.error # NoError /\ r.action # "none"

\* the failed delete or rewrite is in the error list and the loop went on
FailedMutationRecorded ==
    (pc = "exited" /\ summary # <<>> /\ ~dry_run) =>
        /\ \A k \in 1..Len(results) :
              MutationFailed(results[k]) =>
                 \E e \in 1..Len(summary[1].errors) :
                    summary[1].errors[e][1] = results[k].file
        /\ Len(results) = Len(rust_files)

\* C11: when the delete or the rewrite of a file fails in a real run, the
\* failure is recorded as an error for that file, the next file is processed,
\* and the decision made for the file (file removed, n snippets removed) is
\* still counted in the summary of the run.
C11_FailedMutationStillCounted ==
    (pc = "exited" /\ summary # <<>> /\ ~dry_run) =>
        /\ FailedMutationRecorded
        /\ summary[1].files_removed = CountOf(results, HasActionFileRemoved)
        /\ summary[1].files_with_snippets_removed
              = CountOf(results, HasActionSnippetsRemoved)

\* the read at lines 70-71 fails for this path
GateReadFails(file_path) == "read_gate" \in faults[file_path]

\* C12: a read failure inside should_remove_file makes it return false
\* without raising, is entered in the error list of the run for that file,
\* and the file is neither deleted nor rewritten, also when the second read
\* of the file succeeds.
C12_GateAnomalyIsPerFileError ==
    (pc = "exited" /\ summary # <<>>) =>
        \A k \in 1..Len(results) :
            LET f == results[k].file
            IN GateReadFails(f) =>
                  /\ \A p \in 1..Len(log) :
                        (log[p].op = "should_remove_file" /\ log[p].file = f)
                            => ~log[p].ok
                  /\ \E e \in 1..Len(summary[1].errors) : summary[1].errors[e][1] = f
                  /\ f \in DOMAIN fs /\ fs[f] = fs0[f]

\* the parts of C12 the code keeps: the gate returns false, nothing is deleted
GateAnomalyReturnsFalse ==
    \A p \in 1..Len(log) :
        (log[p].op = "should_remove_file" /\ GateReadFails(log[p].file))
            => (~log[p].ok /\ log[p].file \in DOMAIN fs)

Begins(ls) == {s \in 1..Len(ls) : Contains(ls[s], SnippetBegin)}

\* every begin line has an end line at or after it, and the next begin line
\* comes after that end line
NonOverlappingTerminated(ls) ==
    \A s \in Begins(ls) :
        /\ \E e \in s..Len(ls) : Contains(ls[e], SnippetEnd)
        /\ \A t \in Begins(ls) : t > s => FirstEnd(ls, s) < t

\* seq occurs in ls as a run of consecutive lines
OccursIn(seq, ls) ==
    \E m \in 0..(Len(ls) - Len(seq)) : SubSeq(ls, m + 1, m + Len(seq)) = seq

\* C13: the removed count is the number of dropped spans, not of dropped
\* lines; dropped spans are pairwise disjoint; in a content whose snippets
\* are terminated and do not overlap, a snippet is dropped iff the license
\* marker occurs on one of its own lines, begin and end line included, and
\* every snippet without the marker is in the output whole.
C13_SpansCountedAndJudgedAlone ==
    (pass = 1 /\ scan_pc = "returned") =>
        LET ls == Split(content)
            D == DroppedStarts(ls)
            Own == {s \in Begins(ls) : SpanLicensed(ls, s)}
            K == {k \in 1..Len(ls) : ~Covered(ls, Own, k)}
        IN /\ snippets_removed = Cardinality(D)
           /\ Len(ls) - Len(result_lines)
                 = Cardinality({k \in 1..Len(ls) : Covered(ls, D, k)})
           /\ \A d1, d2 \in D : d1 < d2 => FirstEnd(ls, d1) < d2
           /\ NonOverlappingTerminated(ls) =>
                 /\ snippets_removed = Cardinality(Own)
                 /\ result_lines = Pick(ls, K)
                 /\ \A s \in Begins(ls) \ Own :
                       OccursIn(SubSeq(ls, s, FirstEnd(ls, s)), result_lines)

\* of two terminated snippets one was dropped, with more lines than one, and
\* the other one is in the output
C13_Witness ==
    /\ pass = 1 /\ scan_pc = "returned"
    /\ NonOverlappingTerminated(lines)
    /\ Cardinality(Begins(lines)) = 2
    /\ snippets_removed = 1
    /\ Len(lines) - Len(result_lines) >= 2
    /\ \E k \in 1..Len(result_lines) : Contains(result_lines[k], SnippetBegin)

\* the log holds an event of one of the ops for the file
Logged(ops, file_path) ==
    \E p \in 1..Len(log) : log[p].op \in ops /\ log[p].file = file_path

\* the function part of C14 on the step machine: count 0 iff same content
CountZeroIffSameContent ==
    (pass = 1 /\ scan_pc = "returned") =>
        ((snippets_removed = 0) <=> (modified_content = content))

\* C14: remove_proprietary_snippets returns count 0 iff the content it
\* returns equals its input, so a real run writes a file it read exactly
\* when the new content differs from the old one, and a file whose action is
\* 'none' is neither written nor deleted.
C14_WrittenOnlyIfChanged ==
    /\ \A f \in DOMAIN fs0 :
          LET r == remove_proprietary_snippets(fs0[f])
          IN (r[2] = 0) <=> (r[1] = fs0[f])
    /\ \A p \in 1..Len(log) :
          (log[p].op = "write" /\ log[p].ok) =>
              /\ fs[log[p].file] # fs0[log[p].file]
              /\ fs[log[p].file] = remove_proprietary_snippets(fs0[log[p].file])[1]
    /\ \A k \in 1..Len(results) :
          LET f == results[k].file
          IN /\ (~dry_run /\ Logged({"remove_proprietary_snippets"}, f)) =>
                    (Logged({"write"}, f)
                        <=> remove_proprietary_snippets(fs0[f])[1] # fs0[f])
             /\ results[k].action = "none" =>
                    /\ ~Logged({"write", "os.remove"}, f)
                    /\ f \in DOMAIN fs /\ fs[f] = fs0[f]

\* a real run ended with action 'none' for a file that holds a snippet
\* without the license marker in it and the license marker outside of it
C14_Witness ==
    /\ pc = "exited" /\ ~dry_run /\ run = 1
    /\ Len(results) = 1
    /\ results[1].action = "none" /\ results[1].error = NoError
    /\ Contains(fs0[results[1].file], SnippetBegin)
    /\ Contains(fs0[results[1].file], LicenseSEL)
    /\ Logged({"remove_proprietary_snippets"}, results[1].file)

\* C15: on the lines of the content trimmed as a whole,
\* find_first_comment_block returns: when line 1 starts with '/*', line 1
\* through the first line holding '*/' (all lines when there is none); when
\* line 1 starts with '//', the longest prefix of lines that, trimmed, start
\* with '//' or are empty; none otherwise, empty content included.
C15_FirstCommentBlock ==
    (gate_pc = "returned" /\ ~Raises(GatePath, "read_gate")) =>
        LET ls == Split(Strip(fs[GatePath]))
            n == Len(ls)
            Closes == {k \in 1..n : Contains(ls[k], BlockClose)}
            CommentOrEmpty(k) ==
                StartsWithLineComment(Strip(ls[k])) \/ Strip(ls[k]) = <<>>
            last ==
                IF StartsWithBlockOpen(ls[1])
                THEN IF Closes = {} THEN n
                     ELSE CHOOSE e \in Closes : \A k \in Closes : e <= k
                ELSE CHOOSE m \in 1..n :
                        /\ \A k \in 1..m : CommentOrEmpty(k)
                        /\ m = n \/ ~CommentOrEmpty(m + 1)
        IN IF StartsWithBlockOpen(ls[1]) \/ StartsWithLineComment(ls[1])
           THEN /\ gate_comment.found
                /\ gate_comment.text = Join[SubSeq(ls, 1, last)]
           ELSE gate_comment = NoBlock

\* a block comment was returned that closes before the last line, for a
\* content that starts with an empty line
C15_Witness ==
    /\ gate_pc = "returned" /\ ~Raises(GatePath, "read_gate")
    /\ gate_comment.found
    /\ StartsWithBlockOpen(gate_comment.text)
    /\ ~Contains(gate_comment.text, BlockClose)
          \/ Len(Split(gate_comment.text)) < Len(Split(Strip(fs[GatePath])))
    /\ fs[GatePath][1] = NL

\* the reference procedure: a kept span is emitted whole and the scan goes on
\* after its last line
ReferenceFrom[ls \in TextLines, ii \in Nat, res \in TextLines, removed \in Nat] ==
    IF ii <= Len(ls)
    THEN IF Contains(ls[ii], SnippetBegin)
         THEN IF SpanLicensed(ls, ii)
              THEN ReferenceFrom[ls, FirstEnd(ls, ii) + 1, res, removed + 1]
              ELSE ReferenceFrom[ls, FirstEnd(ls, ii) + 1,
                                 res \o SubSeq(ls, ii, FirstEnd(ls, ii)), removed]
         ELSE ReferenceFrom[ls, ii + 1, Append(res, ls[ii]), removed]
    ELSE <<Join[res], removed>>

Reference(text) == ReferenceFrom[Split(text), 1, <<>>, 0]

\* C16: emitting only the begin line of a kept span and rescanning its
\* remaining lines gives, for every input, the content and the removed count
\* of the reference procedure that emits the whole kept span and goes on
\* after its end line.
C16_KeptSpanAsReference ==
    (pass = 1 /\ scan_pc = "returned") =>
        <<modified_content, snippets_removed>> = Reference(content)

\* a kept span of three lines or more with a begin line nested in it was
\* scanned to the end
C16_Witness ==
    /\ pass = 1 /\ scan_pc = "returned"
    /\ snippets_removed = 0
    /\ \E s \in Begins(lines) :
          /\ FirstEnd(lines, s) >= s + 2
          /\ \E t \in Begins(lines) : s < t /\ t <= FirstEnd(lines, s)

\* an end line exists at or after the 1-based index s
Terminated(ls, s) == \E e \in s..Len(ls) : Contains(ls[e], SnippetEnd)

\* the span collected for the begin line at 0-based index i: it ends at the
\* first end line at or after the begin line, else at the last line
SpanIsFirstEnd ==
    scan_pc = "check" =>
        /\ snippet_start = i
        /\ Contains(lines[i + 1], SnippetBegin)
        /\ j = IF Terminated(lines, i + 1) THEN FirstEnd(lines, i + 1) - 1
               ELSE Len(lines)
        /\ snippet_lines = SubSeq(lines, i + 1, FirstEnd(lines, i + 1))

\* a dropped span is one removed span whatever begin lines it holds, nothing
\* of it is emitted and the scan goes on at the line after it
DropIsOneSpan ==
    (scan_pc = "check" /\ SpanLicensed(lines, i + 1)) =>
        /\ snippets_removed' = snippets_removed + 1
        /\ result_lines' = result_lines
        /\ i' = IF Terminated(lines, i + 1) THEN FirstEnd(lines, i + 1)
                ELSE Len(lines) + 1
        /\ scan_pc' = "outer"

\* a line without begin marker met by the outer loop is emitted as it is
OrdinaryLinePasses ==
    (scan_pc = "outer" /\ i < Len(lines) /\ ~Contains(lines[i + 1], SnippetBegin)) =>
        /\ result_lines' = Append(result_lines, lines[i + 1])
        /\ i' = i + 1
        /\ snippets_removed' = snippets_removed

\* C17: no nesting. The span of a begin line reached by the scan runs to the
\* first line at or after it that holds the end marker (a line with both
\* markers is a span of one line); a begin line inside a dropped span opens
\* no span and is dropped with it, the construct counts as one removed span,
\* and the lines after the span, an unmatched outer end line included, pass
\* through to the output.
C17_NoNesting ==
    /\ []SpanIsFirstEnd
    /\ [][DropIsOneSpan]_vars
    /\ [][OrdinaryLinePasses]_vars
    /\ [](remove_proprietary_snippets(
             <<SnippetBegin, NL, SnippetBegin, SP, LicenseSEL, NL,
               SnippetEnd, NL, SnippetEnd>>) = << <<SnippetEnd>>, 1 >>)
    /\ []((pass = 1 /\ scan_pc = "returned") =>
            \A k \in 1..Len(lines) :
                (~Contains(lines[k], SnippetBegin)
                    /\ ~Covered(lines, DroppedStarts(lines), k))
                => \E m \in 1..Len(result_lines) : result_lines[m] = lines[k])

\* a licensed span with a begin line nested in it was dropped as one span and
\* the outer end line that follows it is the whole output
C17_Witness ==
    /\ pass = 1 /\ scan_pc = "returned"
    /\ Len(lines) = 4
    /\ Contains(lines[1], SnippetBegin) /\ Contains(lines[2], SnippetBegin)
    /\ snippets_removed = 1
    /\ result_lines = << <<SnippetEnd>> >>

\* number of entries of rust_files the loop has reached
Reached == idx + (IF InProcess THEN 1 ELSE 0)

Changed(file_path) == file_path \notin DOMAIN fs \/ fs[file_path] # fs0[file_path]

\* C18: in every state of a real run each file not yet reached by the loop
\* exists with its original content, each file processed with action 'none'
\* or with an error has its original content, the files deleted or rewritten
\* are exactly the processed files whose delete or rewrite was decided and
\* went through, no file is written more than once and none after its delete.
C18_OnlyProcessedFilesChange ==
    ~dry_run =>
        /\ DOMAIN fs \subseteq DOMAIN fs0
        /\ \A f \in DOMAIN fs0 :
              Changed(f) => \E k \in 1..Reached : k <= Len(rust_files) /\ rust_files[k] = f
        /\ \A k \in (Reached + 1)..Len(rust_files) : ~Changed(rust_files[k])
        /\ \A k \in 1..Len(results) :
              LET r == results[k]
              IN /\ (r.action = "none" \/ r.error # NoError) => ~Changed(r.file)
                 /\ (r.action = "file_removed" /\ r.error = NoError)
                        => r.file \notin DOMAIN fs
                 /\ (r.action = "snippets_removed" /\ r.error = NoError) =>
                        /\ r.file \in DOMAIN fs
                        /\ fs[r.file] = remove_proprietary_snippets(fs0[r.file])[1]
                        /\ Changed(r.file)
        /\ \A p, q \in 1..Len(log) :
              (p < q /\ log[p].file = log[q].file /\ log[q].op = "write")
                  => log[p].op \notin {"write", "os.remove"}

\* a real run stands between two files: the first one was rewritten, the
\* second one, which holds a licensed snippet too, is still untouched
C18_Witness ==
    /\ ~dry_run /\ pc = "loop" /\ idx = 1 /\ Len(rust_files) >= 2
    /\ results[1].action = "snippets_removed" /\ results[1].error = NoError
    /\ Changed(rust_files[1])
    /\ ~Changed(rust_files[2])
    /\ remove_proprietary_snippets(fs[rust_files[2]])[2] > 0

\* the first of two real runs decided 'action' for the file
FirstRunAction(file_path, action) ==
    \E k \in 1..Len(predicted[1]) :
        predicted[1][k].file = file_path /\ predicted[1][k].action = action

SecondRunDeletesRewrittenFile ==
    /\ run = 3 /\ pc = "exited"
    /\ Len(results) = 1
    /\ FirstRunAction(results[1].file, "snippets_removed")
    /\ results[1].action = "file_removed"

====
